---- MODULE Spec2Model ----
(***************************************************************************)
(* AIM resource model (aim/api/resource.py): construction of resource      *)
(* instances from per-type defaults and keyword values, the derived read   *)
(* operations (identity, attributes, members), reverse decoding of a DN    *)
(* and equality.                                                           *)
(*                                                                         *)
(* A Python value is a record [t |-> type name, v |-> payload], the        *)
(* payload a sequence of strings, so any two values can be compared.  An   *)
(* instance is its class name and its __dict__, a function from attribute  *)
(* names to values whose domain is the set of attributes currently set.    *)
(***************************************************************************)
EXTENDS Naturals, Sequences, FiniteSets, TLC

VARIABLES objs, last, nsets

vars == <<objs, last, nsets>>

(***************************************************************************)
(* Bounds of the model.                                                    *)
(***************************************************************************)
\* longest decomposition the path codec hands back to from_dn
MaxRns == 5
\* attribute assignments made on one instance after its construction
MaxSets == 1

(***************************************************************************)
(* Python values.                                                          *)
(***************************************************************************)
None == [t |-> "NoneType", v |-> <<>>]
Str(s) == [t |-> "str", v |-> <<s>>]
True == [t |-> "bool", v |-> <<"1">>]
False == [t |-> "bool", v |-> <<"0">>]
Int0 == [t |-> "int", v |-> <<"0">>]
EmptyList == [t |-> "list", v |-> <<>>]
UNSPECIFIED == Str("unspecified")

\* Python's truth test, as used by `if kwargs.pop('_set_default', True)`
Truthy(x) ==
    CASE x.t = "NoneType" -> FALSE
      [] x.t = "bool" -> x.v = <<"1">>
      [] x.t = "int" -> x.v # <<"0">>
      [] x.t = "str" -> x.v # <<"">>
      [] OTHER -> x.v # <<>>

\* Python's == on values: structural, with bool a subtype of int (True == 1)
PyEq(x, y) ==
    \/ x = y
    \/ x.t \in {"bool", "int"} /\ y.t \in {"bool", "int"} /\ x.v = y.v

\* a dict is a function from names to values
EmptyDict == <<>>
\* d.update(m), and `for k, v in m.iteritems(): setattr(self, k, v)`
Update(d, m) ==
    [k \in DOMAIN d \cup DOMAIN m |-> IF k \in DOMAIN m THEN m[k] ELSE d[k]]
\* d.get(k)
Get(d, k) == IF k \in DOMAIN d THEN d[k] ELSE None
\* d.setdefault(k, v)
SetDefault(d, k, v) == IF k \in DOMAIN d THEN d ELSE Update(d, [x \in {k} |-> v])
\* d without key k (the dict left by d.pop(k, ...))
Without(d, k) == [x \in DOMAIN d \ {k} |-> d[x]]
\* d1 == d2 on dicts
DictEq(d1, d2) ==
    /\ DOMAIN d1 = DOMAIN d2
    /\ \A k \in DOMAIN d1 : PyEq(d1[k], d2[k])

Range(s) == {s[i] : i \in DOMAIN s}

(***************************************************************************)
(* The declared resource types.                                            *)
(***************************************************************************)
AciClasses ==
    {"Tenant", "BridgeDomain", "Subnet", "VRF", "ApplicationProfile",
     "EndpointGroup", "Filter", "FilterEntry", "Contract", "ContractSubject",
     "L3Outside", "ExternalNetwork", "ExternalSubnet", "SecurityGroup",
     "SecurityGroupSubject", "SecurityGroupRule"}

PlainClasses == {"Agent", "Endpoint", "VMMDomain", "PhysicalDomain"}

Classes == AciClasses \cup PlainClasses

\* Subclasses of AciResourceBase that leave out a declaration the base class
\* requires ("Child classes must define"): none is declared in resource.py;
\* each is declared like Tenant, less the class attributes its name says
IncompleteClasses == {"NoMoName", "NoTreeParent", "NoMoNameNoTreeParent"}

\* issubclass(cls, AciResourceBase): the types with dn and from_dn
IsAciResource(cls) == cls \in AciClasses \cup IncompleteClasses

\* keys of the class attribute identity_attributes, in declaration order
identity_attributes(cls) ==
    CASE cls = "Tenant" -> <<"name">>
      [] cls = "BridgeDomain" -> <<"tenant_name", "name">>
      [] cls = "Agent" -> <<"id">>
      [] cls = "Subnet" -> <<"tenant_name", "bd_name", "gw_ip_mask">>
      [] cls = "VRF" -> <<"tenant_name", "name">>
      [] cls = "ApplicationProfile" -> <<"tenant_name", "name">>
      [] cls = "EndpointGroup" -> <<"tenant_name", "app_profile_name", "name">>
      [] cls = "Filter" -> <<"tenant_name", "name">>
      [] cls = "FilterEntry" -> <<"tenant_name", "filter_name", "name">>
      [] cls = "Contract" -> <<"tenant_name", "name">>
      [] cls = "ContractSubject" -> <<"tenant_name", "contract_name", "name">>
      [] cls = "Endpoint" -> <<"uuid">>
      [] cls = "VMMDomain" -> <<"type", "name">>
      [] cls = "PhysicalDomain" -> <<"name">>
      [] cls = "L3Outside" -> <<"tenant_name", "name">>
      [] cls = "ExternalNetwork" -> <<"tenant_name", "l3out_name", "name">>
      [] cls = "ExternalSubnet" ->
            <<"tenant_name", "l3out_name", "external_network_name", "cidr">>
      [] cls = "SecurityGroup" -> <<"tenant_name", "name">>
      [] cls = "SecurityGroupSubject" ->
            <<"tenant_name", "security_group_name", "name">>
      [] cls = "SecurityGroupRule" ->
            <<"tenant_name", "security_group_name",
              "security_group_subject_name", "name">>
      [] cls \in IncompleteClasses -> <<"name">>

\* keys of the class attribute other_attributes, in declaration order
other_attributes(cls) ==
    CASE cls = "Tenant" -> <<"display_name", "monitored">>
      [] cls = "BridgeDomain" ->
            <<"display_name", "vrf_name", "enable_arp_flood", "enable_routing",
              "limit_ip_learn_to_subnets", "l2_unknown_unicast_mode",
              "ep_move_detect_mode", "l3out_names", "monitored">>
      [] cls = "Agent" ->
            <<"agent_type", "host", "binary_file", "admin_state_up",
              "description", "hash_trees", "beat_count", "version">>
      [] cls = "Subnet" -> <<"scope", "display_name", "monitored">>
      [] cls = "VRF" ->
            <<"display_name", "policy_enforcement_pref", "monitored">>
      [] cls = "ApplicationProfile" -> <<"display_name", "monitored">>
      [] cls = "EndpointGroup" ->
            <<"display_name", "bd_name", "policy_enforcement_pref",
              "provided_contract_names", "consumed_contract_names",
              "openstack_vmm_domain_names", "physical_domain_names",
              "static_paths", "monitored">>
      [] cls = "Filter" -> <<"display_name", "monitored">>
      [] cls = "FilterEntry" ->
            <<"display_name", "arp_opcode", "ether_type", "ip_protocol",
              "icmpv4_type", "icmpv6_type", "source_from_port",
              "source_to_port", "dest_from_port", "dest_to_port", "tcp_flags",
              "stateful", "fragment_only", "monitored">>
      [] cls = "Contract" -> <<"scope", "display_name", "monitored">>
      [] cls = "ContractSubject" ->
            <<"display_name", "in_filters", "out_filters", "bi_filters",
              "monitored">>
      [] cls = "Endpoint" ->
            <<"display_name", "epg_tenant_name", "epg_app_profile_name",
              "epg_name">>
      [] cls = "VMMDomain" -> <<>>
      [] cls = "PhysicalDomain" -> <<>>
      [] cls = "L3Outside" ->
            <<"display_name", "vrf_name", "l3_domain_dn", "monitored">>
      [] cls = "ExternalNetwork" ->
            <<"display_name", "nat_epg_dn", "provided_contract_names",
              "consumed_contract_names", "monitored">>
      [] cls = "ExternalSubnet" -> <<"display_name", "monitored">>
      [] cls = "SecurityGroup" -> <<"display_name", "monitored">>
      [] cls = "SecurityGroupSubject" -> <<"display_name", "monitored">>
      [] cls = "SecurityGroupRule" ->
            <<"display_name", "direction", "ethertype", "remote_ips",
              "ip_protocol", "from_port", "to_port", "monitored">>
      [] cls \in IncompleteClasses -> <<"display_name", "monitored">>

\* keys of the class attribute db_attributes (t.db() on the base class)
db_attributes(cls) ==
    IF cls = "Agent" THEN <<"heartbeat_timestamp">> ELSE <<>>

\* the class attribute _aci_mo_name
_aci_mo_name(cls) ==
    CASE cls = "Tenant" -> "fvTenant"
      [] cls = "BridgeDomain" -> "fvBD"
      [] cls = "Subnet" -> "fvSubnet"
      [] cls = "VRF" -> "fvCtx"
      [] cls = "ApplicationProfile" -> "fvAp"
      [] cls = "EndpointGroup" -> "fvAEPg"
      [] cls = "Filter" -> "vzFilter"
      [] cls = "FilterEntry" -> "vzEntry"
      [] cls = "Contract" -> "vzBrCP"
      [] cls = "ContractSubject" -> "vzSubj"
      [] cls = "VMMDomain" -> "vmmDomP"
      [] cls = "PhysicalDomain" -> "physDomP"
      [] cls = "L3Outside" -> "l3extOut"
      [] cls = "ExternalNetwork" -> "l3extInstP"
      [] cls = "ExternalSubnet" -> "l3extSubnet"
      [] cls = "SecurityGroup" -> "hostprotPol"
      [] cls = "SecurityGroupSubject" -> "hostprotSubj"
      [] cls = "SecurityGroupRule" -> "hostprotRule"
      [] cls = "NoTreeParent" -> "fvTenant"

\* _tree_parent with every type below Tenant a child of Tenant
_tree_parentFlat(cls) ==
    IF cls \in {"Tenant", "VMMDomain", "PhysicalDomain", "NoMoName"}
    THEN "None" ELSE "Tenant"

\* the class attribute _tree_parent ("None" for the roots of the tree)
_tree_parent(cls) ==
    CASE cls = "Tenant" -> "None"
      [] cls = "BridgeDomain" -> "Tenant"
      [] cls = "Subnet" -> "BridgeDomain"
      [] cls = "VRF" -> "Tenant"
      [] cls = "ApplicationProfile" -> "Tenant"
      [] cls = "EndpointGroup" -> "ApplicationProfile"
      [] cls = "Filter" -> "Tenant"
      [] cls = "FilterEntry" -> "Filter"
      [] cls = "Contract" -> "Tenant"
      [] cls = "ContractSubject" -> "Contract"
      [] cls = "VMMDomain" -> "None"
      [] cls = "PhysicalDomain" -> "None"
      [] cls = "L3Outside" -> "Tenant"
      [] cls = "ExternalNetwork" -> "L3Outside"
      [] cls = "ExternalSubnet" -> "ExternalNetwork"
      [] cls = "SecurityGroup" -> "Tenant"
      [] cls = "SecurityGroupSubject" -> "SecurityGroup"
      [] cls = "SecurityGroupRule" -> "SecurityGroupSubject"
      [] cls = "NoMoName" -> "None"

\* hasattr(cls, ra) for the two class attributes AciResourceBase requires
HasClassAttr(cls, ra) ==
    CASE cls \in {"Agent", "Endpoint", "NoMoNameNoTreeParent"} -> FALSE
      [] cls = "NoMoName" -> ra = "_tree_parent"
      [] cls = "NoTreeParent" -> ra = "_aci_mo_name"
      [] OTHER -> ra \in {"_tree_parent", "_aci_mo_name"}

\* the defaults mapping each concrete __init__ hands to the base __init__;
\* uuid is the value utils.generate_uuid() returns to Agent.__init__
Defaults(cls, uuid) ==
    CASE cls = "Tenant" -> [monitored |-> False]
      [] cls = "BridgeDomain" ->
            [vrf_name |-> Str(""), enable_arp_flood |-> True,
             enable_routing |-> True, limit_ip_learn_to_subnets |-> False,
             l2_unknown_unicast_mode |-> Str("proxy"),
             ep_move_detect_mode |-> Str("garp"), l3out_names |-> EmptyList,
             monitored |-> False]
      [] cls = "Agent" ->
            [admin_state_up |-> True, beat_count |-> Int0, id |-> Str(uuid)]
      [] cls = "Subnet" -> [scope |-> Str("public"), monitored |-> False]
      [] cls = "VRF" ->
            [policy_enforcement_pref |-> Str("enforced"), monitored |-> False]
      [] cls = "ApplicationProfile" -> [monitored |-> False]
      [] cls = "EndpointGroup" ->
            [bd_name |-> Str(""), provided_contract_names |-> EmptyList,
             consumed_contract_names |-> EmptyList,
             openstack_vmm_domain_names |-> EmptyList,
             physical_domain_names |-> EmptyList,
             policy_enforcement_pref |-> Str("unenforced"),
             static_paths |-> EmptyList, monitored |-> False]
      [] cls = "Filter" -> [monitored |-> False]
      [] cls = "FilterEntry" ->
            [arp_opcode |-> UNSPECIFIED, ether_type |-> UNSPECIFIED,
             ip_protocol |-> UNSPECIFIED, icmpv4_type |-> UNSPECIFIED,
             icmpv6_type |-> UNSPECIFIED, source_from_port |-> UNSPECIFIED,
             source_to_port |-> UNSPECIFIED, dest_from_port |-> UNSPECIFIED,
             dest_to_port |-> UNSPECIFIED, tcp_flags |-> UNSPECIFIED,
             stateful |-> False, fragment_only |-> False, monitored |-> False]
      [] cls = "Contract" -> [scope |-> Str("context"), monitored |-> False]
      [] cls = "ContractSubject" ->
            [in_filters |-> EmptyList, out_filters |-> EmptyList,
             bi_filters |-> EmptyList, monitored |-> False]
      [] cls = "Endpoint" ->
            [epg_name |-> None, epg_tenant_name |-> None,
             epg_app_profile_name |-> None]
      [] cls = "VMMDomain" -> EmptyDict
      [] cls = "PhysicalDomain" -> EmptyDict
      [] cls = "L3Outside" ->
            [vrf_name |-> Str(""), l3_domain_dn |-> Str(""),
             monitored |-> False]
      [] cls = "ExternalNetwork" ->
            [nat_epg_dn |-> Str(""), provided_contract_names |-> EmptyList,
             consumed_contract_names |-> EmptyList, monitored |-> False]
      [] cls = "ExternalSubnet" -> [monitored |-> False]
      [] cls = "SecurityGroup" -> [monitored |-> False]
      [] cls = "SecurityGroupSubject" -> [monitored |-> False]
      [] cls = "SecurityGroupRule" ->
            [direction |-> Str("ingress"), ethertype |-> Str("undefined"),
             remote_ips |-> EmptyList, ip_protocol |-> UNSPECIFIED,
             from_port |-> UNSPECIFIED, to_port |-> UNSPECIFIED,
             monitored |-> False]
      [] cls \in IncompleteClasses -> [monitored |-> False]

(***************************************************************************)
(* ResourceBase.                                                           *)
(***************************************************************************)
\* UnsetAttr stopping at the first missing attribute
UnsetAttrFirst(cls, defaults, kwargs) ==
    LET Missing(k) == Get(kwargs, k) = None /\ k \notin DOMAIN defaults
        all == SelectSeq(identity_attributes(cls), Missing)
    IN  IF all = <<>> THEN <<>> ELSE <<Head(all)>>

\* UnsetAttr testing `k not in kwargs`, so that a supplied None counts
UnsetAttrAbsentOnly(cls, defaults, kwargs) ==
    LET Missing(k) == k \notin DOMAIN kwargs /\ k \notin DOMAIN defaults
    IN  SelectSeq(identity_attributes(cls), Missing)

\* the identity attributes __init__ finds neither supplied nor defaulted
UnsetAttr(cls, defaults, kwargs) ==
    LET Missing(k) == Get(kwargs, k) = None /\ k \notin DOMAIN defaults
    IN  SelectSeq(identity_attributes(cls), Missing)

\* DisplayNameDefault without the setdefault
DisplayNameDefaultNone(cls, defaults) == defaults

\* defaults after `defaults.setdefault('display_name', '')`
DisplayNameDefault(cls, defaults) ==
    IF "display_name" \in Range(other_attributes(cls))
    THEN SetDefault(defaults, "display_name", Str(""))
    ELSE defaults

\* SetAttrs with the two loops swapped, so that a default wins
SetAttrsDefaultsWin(defaults, kwargs) ==
    LET set_default == IF "_set_default" \in DOMAIN kwargs
                       THEN kwargs["_set_default"] ELSE True
        popped == Without(kwargs, "_set_default")
    IN  IF Truthy(set_default) THEN Update(popped, defaults) ELSE popped

\* SetAttrs reading the flag with get, so that it stays a keyword
SetAttrsKeepFlag(defaults, kwargs) ==
    LET set_default == IF "_set_default" \in DOMAIN kwargs
                       THEN kwargs["_set_default"] ELSE True
        d1 == IF Truthy(set_default) THEN Update(EmptyDict, defaults)
              ELSE EmptyDict
    IN  Update(d1, kwargs)

\* self.__dict__ after the two setattr loops
SetAttrs(defaults, kwargs) ==
    LET set_default == IF "_set_default" \in DOMAIN kwargs
                       THEN kwargs["_set_default"] ELSE True
        popped == Without(kwargs, "_set_default")
        d1 == IF Truthy(set_default) THEN Update(EmptyDict, defaults)
              ELSE EmptyDict
    IN  Update(d1, popped)

\* ResourceBase.__init__ raising only after the setattr loops
ResourceBase__init__Late(cls, defaults, kwargs) ==
    LET unset_attr == UnsetAttr(cls, defaults, kwargs)
        defaults1 == DisplayNameDefault(cls, defaults)
    IN  IF unset_attr # <<>>
        THEN [exc |-> "IdentityAttributesMissing", attr |-> unset_attr,
              dict |-> SetAttrs(defaults1, kwargs)]
        ELSE [exc |-> "None", attr |-> <<>>,
              dict |-> SetAttrs(defaults1, kwargs)]

\* ResourceBase.__init__(self, defaults, **kwargs) on a fresh instance:
\* the exception raised ("None" when it returns), the attributes the
\* exception names, and self.__dict__ when __init__ is left
ResourceBase__init__(cls, defaults, kwargs) ==
    LET unset_attr == UnsetAttr(cls, defaults, kwargs)
        defaults1 == DisplayNameDefault(cls, defaults)
    IN  IF unset_attr # <<>>
        THEN [exc |-> "IdentityAttributesMissing", attr |-> unset_attr,
              dict |-> EmptyDict]
        ELSE [exc |-> "None", attr |-> <<>>,
              dict |-> SetAttrs(defaults1, kwargs)]

\* ResourceBase.identity
identity(o) ==
    LET keys == identity_attributes(o.cls)
    IN  IF \E i \in DOMAIN keys : keys[i] \notin DOMAIN o.dict
        THEN [exc |-> "AttributeError", ret |-> <<>>]
        ELSE [exc |-> "None", ret |-> [i \in DOMAIN keys |-> o.dict[keys[i]]]]

\* attributes listing the other attributes first
attributesOtherFirst(cls) ==
    other_attributes(cls) \o identity_attributes(cls) \o db_attributes(cls)

\* ResourceBase.attributes
attributes(cls) ==
    identity_attributes(cls) \o other_attributes(cls) \o db_attributes(cls)

\* the comprehension of ResourceBase.members over the names xs
RECURSIVE MembersOver(_, _)
MembersOver(xs, d) ==
    IF xs = <<>> THEN EmptyDict
    ELSE LET x == Head(xs)
             rest == MembersOver(Tail(xs), d)
         IN  IF x \in DOMAIN d
             THEN Update([k \in {x} |-> d[x]], rest)
             ELSE rest

\* members forgetting the _error flag
membersNoError(o) ==
    MembersOver(attributes(o.cls) \o <<"pre_existing">>, o.dict)

\* ResourceBase.members
members(o) ==
    MembersOver(attributes(o.cls) \o <<"pre_existing">> \o <<"_error">>, o.dict)

\* ','.join(xs) on a list of strings
RECURSIVE Join(_)
Join(xs) ==
    IF xs = <<>> THEN ""
    ELSE IF Len(xs) = 1 THEN Head(xs).v[1]
    ELSE Head(xs).v[1] \o "," \o Join(Tail(xs))

\* ResourceBase.__str__: '%s(%s)' % (type(self).__name__,
\* ','.join(self.identity)); join raises TypeError on an item that is not a
\* string
__str__(o) ==
    LET id == identity(o)
    IN  IF id.exc # "None" THEN [exc |-> id.exc, ret |-> None]
        ELSE IF \E i \in DOMAIN id.ret : id.ret[i].t # "str"
        THEN [exc |-> "TypeError", ret |-> None]
        ELSE [exc |-> "None", ret |-> Str(o.cls \o "(" \o Join(id.ret) \o ")")]

(***************************************************************************)
(* AciResourceBase.                                                        *)
(***************************************************************************)
\* no path, and the keyword arguments of an exception naming no path or type
NoDn == [ok |-> FALSE, mo |-> "None", rns |-> <<>>]
NoAbout == [dn |-> NoDn, cls |-> "None"]

\* AciResourceBase.__init__; the error carries attr=ra, klass=cls
AciResourceBase__init__(cls, defaults, kwargs) ==
    LET required == <<"_tree_parent", "_aci_mo_name">>
        absent == SelectSeq(required, LAMBDA ra : ~HasClassAttr(cls, ra))
    IN  IF absent # <<>>
        THEN [exc |-> "AciResourceDefinitionError", attr |-> <<Head(absent)>>,
              dict |-> EmptyDict, about |-> [dn |-> NoDn, cls |-> cls]]
        ELSE ResourceBase__init__(cls, defaults, kwargs)

\* cls(**kwargs): the concrete __init__ builds its defaults and calls its base
New(cls, kwargs, uuid) ==
    IF IsAciResource(cls)
    THEN AciResourceBase__init__(cls, Defaults(cls, uuid), kwargs)
    ELSE ResourceBase__init__(cls, Defaults(cls, uuid), kwargs)

\* DNMgr().aci_decompose(dn, mo) of the external path codec.  A path is
\* described by what the codec makes of it: dn.ok says whether it is
\* well-formed, dn.mo is the object class it is a path of and dn.rns the
\* values it decomposes into (of a malformed path, its text); a path that is
\* malformed, or not a path of mo, is rejected
aci_decompose(dn, mo) ==
    IF dn.ok /\ dn.mo = mo THEN [exc |-> "None", rns |-> dn.rns]
    ELSE [exc |-> "InvalidNameFormat", rns |-> <<>>]

\* zip pairing the identity attributes with the decoded values from the end
ZipAttrFromEnd(cls, rns) ==
    LET keys == identity_attributes(cls)
        n == IF Len(keys) < Len(rns) THEN Len(keys) ELSE Len(rns)
    IN  [k \in {keys[i] : i \in 1..n} |->
            rns[n + 1 - (CHOOSE i \in 1..n : keys[i] = k)]]

\* {p[0]: p[1] for p in zip(cls.identity_attributes, rns)}
ZipAttr(cls, rns) ==
    LET keys == identity_attributes(cls)
        n == IF Len(keys) < Len(rns) THEN Len(keys) ELSE Len(rns)
    IN  [k \in {keys[i] : i \in 1..n} |->
            rns[CHOOSE i \in 1..n : keys[i] = k]]

\* the length test rejecting a decomposition as long as the identity
TooFewOrAsMany(cls, rns) == Len(rns) <= Len(identity_attributes(cls))

\* the length test rejecting every decomposition not as long as the identity
TooFewOrTooMany(cls, rns) == Len(rns) # Len(identity_attributes(cls))

\* len(rns) < len(cls.identity_attributes)
TooFew(cls, rns) == Len(rns) < Len(identity_attributes(cls))

\* from_dn letting the codec's InvalidNameFormat through
from_dnNoExcept(cls, dn) ==
    IF ~HasClassAttr(cls, "_aci_mo_name")
    THEN [exc |-> "AttributeError", attr |-> <<>>, dict |-> EmptyDict]
    ELSE
    LET r == aci_decompose(dn, _aci_mo_name(cls))
    IN  IF r.exc = "InvalidNameFormat"
        THEN [exc |-> "InvalidNameFormat", attr |-> <<>>, dict |-> EmptyDict]
        ELSE IF TooFew(cls, r.rns)
        THEN [exc |-> "InvalidDNForAciResource", attr |-> <<>>,
              dict |-> EmptyDict, about |-> [dn |-> dn, cls |-> cls]]
        ELSE New(cls, ZipAttr(cls, r.rns), "")

\* from_dn constructing with _set_default=False
from_dnNoDefaults(cls, dn) ==
    IF ~HasClassAttr(cls, "_aci_mo_name")
    THEN [exc |-> "AttributeError", attr |-> <<>>, dict |-> EmptyDict]
    ELSE
    LET r == aci_decompose(dn, _aci_mo_name(cls))
        invalid == [exc |-> "InvalidDNForAciResource", attr |-> <<>>,
                    dict |-> EmptyDict, about |-> [dn |-> dn, cls |-> cls]]
    IN  IF r.exc = "InvalidNameFormat" THEN invalid
        ELSE IF TooFew(cls, r.rns) THEN invalid
        ELSE New(cls, Update(ZipAttr(cls, r.rns), [_set_default |-> False]), "")

\* AciResourceBase.from_dn; reading cls._aci_mo_name raises AttributeError
\* on a type without it; the error carries dn=dn, cls=cls
from_dn(cls, dn) ==
    IF ~HasClassAttr(cls, "_aci_mo_name")
    THEN [exc |-> "AttributeError", attr |-> <<>>, dict |-> EmptyDict]
    ELSE
    LET r == aci_decompose(dn, _aci_mo_name(cls))
        invalid == [exc |-> "InvalidDNForAciResource", attr |-> <<>>,
                    dict |-> EmptyDict, about |-> [dn |-> dn, cls |-> cls]]
    IN  IF r.exc = "InvalidNameFormat" THEN invalid
        ELSE IF TooFew(cls, r.rns) THEN invalid
        ELSE New(cls, ZipAttr(cls, r.rns), "")

\* apic_client.ManagedObjectClass(mo).dn(*values) of the external path codec:
\* the well-formed path of object class mo that decomposes into values
ManagedObjectClass_dn(mo, values) == [ok |-> TRUE, mo |-> mo, rns |-> values]

\* dn handing the codec the identity values in reverse
dnReversed(o) ==
    LET id == identity(o)
        n == Len(id.ret)
    IN  IF id.exc # "None" THEN [exc |-> id.exc, ret |-> NoDn]
        ELSE [exc |-> "None",
              ret |-> ManagedObjectClass_dn(_aci_mo_name(o.cls),
                          [i \in 1..n |-> id.ret[n + 1 - i]])]

\* AciResourceBase.dn
dn(o) ==
    LET id == identity(o)
    IN  IF id.exc # "None" THEN [exc |-> id.exc, ret |-> NoDn]
        ELSE [exc |-> "None",
              ret |-> ManagedObjectClass_dn(_aci_mo_name(o.cls), id.ret)]

\* the keyword arguments naming a path or a type of the exception in r
About(r) == IF "about" \in DOMAIN r THEN r.about ELSE NoAbout

(***************************************************************************)
(* Equality.                                                               *)
(***************************************************************************)
\* __eq__ comparing the member mappings
ResourceBase__eq__Members(a, b) ==
    [exc |-> "None",
     ret |-> IF DictEq(members(a), members(b)) THEN True ELSE False]

\* __eq__ comparing the identity attributes alone
ResourceBase__eq__Identity(a, b) ==
    LET ka == Range(identity_attributes(a.cls)) \cap DOMAIN a.dict
        kb == Range(identity_attributes(b.cls)) \cap DOMAIN b.dict
    IN  [exc |-> "None",
         ret |-> IF ka = kb /\ \A k \in ka : PyEq(a.dict[k], b.dict[k])
                 THEN True ELSE False]

\* ResourceBase.__eq__: self.__dict__ == other.__dict__
ResourceBase__eq__(a, b) ==
    [exc |-> "None", ret |-> IF DictEq(a.dict, b.dict) THEN True ELSE False]

\* Agent.__eq__: self.id == other.id
Agent__eq__(a, b) ==
    IF "id" \notin DOMAIN a.dict \/ "id" \notin DOMAIN b.dict
    THEN [exc |-> "AttributeError", ret |-> None]
    ELSE [exc |-> "None",
          ret |-> IF PyEq(a.dict["id"], b.dict["id"]) THEN True ELSE False]

\* a == b: the __eq__ of a's class
eq(a, b) ==
    IF a.cls = "Agent" THEN Agent__eq__(a, b) ELSE ResourceBase__eq__(a, b)

(***************************************************************************)
(* Inputs.                                                                 *)
(***************************************************************************)
\* values a caller passes for an identity attribute
IdVals == {None, Str("a")}
\* values a caller passes for any other keyword
ExtraVals == {None, Str("b")}
\* values assigned to an attribute after construction
SetVals == {None, Str("c")}
\* values utils.generate_uuid() may return
Uuids == {"uuid1", "uuid2"}
\* values the path codec decomposes a path into
RnVals == {Str("a"), Str("b")}

\* the bookkeeping flags, and a name no type declares
Bookkeeping == {"pre_existing", "_error"}
Undeclared == {"extra"}

\* every dict with keys among `names` and values among `vals`
Dicts(names, vals) == UNION {[S -> vals] : S \in SUBSET names}

\* names besides the identity attributes a caller may pass or assign
ExtraNames(cls) ==
    Range(other_attributes(cls)) \cup Range(db_attributes(cls))
        \cup Bookkeeping \cup Undeclared

\* the keyword dicts a caller constructs cls with: any identity attribute
\* supplied or not, at most one further keyword, the flag given or not
Kwargs(cls) ==
    {Update(Update(ids, extra), flag) :
        ids \in Dicts(Range(identity_attributes(cls)), IdVals),
        extra \in {EmptyDict} \cup
                  {[k \in {x} |-> v] : x \in ExtraNames(cls), v \in ExtraVals},
        flag \in {EmptyDict, [_set_default |-> False],
                  [_set_default |-> True]}}

\* the keyword dicts of the two-instance specification: every identity
\* attribute supplied, at most one further keyword, the flag given or not
CompleteKwargs(cls) ==
    {Update(Update([k \in Range(identity_attributes(cls)) |-> Str("a")], extra),
            flag) :
        extra \in {EmptyDict} \cup
                  {[k \in {x} |-> Str("b")] : x \in ExtraNames(cls)},
        flag \in {EmptyDict, [_set_default |-> False]}}

\* names a caller may assign on an instance of cls
SetNames(cls) == Range(identity_attributes(cls)) \cup ExtraNames(cls)

\* the paths handed to from_dn
DNs ==
    {[ok |-> FALSE, mo |-> "None", rns |-> <<t>>] : t \in RnVals} \cup
    {[ok |-> TRUE, mo |-> _aci_mo_name(c), rns |-> s] :
        c \in AciClasses, s \in UNION {[1..n -> RnVals] : n \in 0..MaxRns}}

\* the keyword dict supplying every identity attribute of cls and no more
IdentityKwargs(cls) == [k \in Range(identity_attributes(cls)) |-> Str("a")]

UuidsFor(cls) == IF cls = "Agent" THEN Uuids ELSE {""}

\* identity values at the edge of "supplied": None, the empty string, a name
EdgeVals == {None, Str(""), Str("a")}
\* the keyword dicts supplying any of the identity attributes with them
EdgeKwargs(cls) == Dicts(Range(identity_attributes(cls)), EdgeVals)

(***************************************************************************)
(* State: objs[i] is the instance in slot i, last the latest call and its  *)
(* outcome, nsets[i] the assignments made on objs[i] since construction.   *)
(***************************************************************************)
Slots == {1, 2}

Unborn == [cls |-> "None", dict |-> EmptyDict, state |-> "unborn"]
NoCall ==
    [op |-> "None", slot |-> 0, cls |-> "None", kwargs |-> EmptyDict,
     dn |-> NoDn, exc |-> "None", attr |-> <<>>, about |-> NoAbout,
     ret |-> None, other |-> 0]

Live(i) == objs[i].state = "live"

Init ==
    /\ objs = [i \in Slots |-> Unborn]
    /\ last = NoCall
    /\ nsets = [i \in Slots |-> 0]

\* objs[i] = cls(**kwargs)
Construct(i) ==
    /\ objs[i].state = "unborn"
    /\ \E cls \in Classes : \E kwargs \in Kwargs(cls) : \E uuid \in UuidsFor(cls) :
          LET r == New(cls, kwargs, uuid)
          IN  /\ objs' = [objs EXCEPT ![i] =
                            [cls |-> cls, dict |-> r.dict,
                             state |-> IF r.exc = "None" THEN "live"
                                       ELSE "failed"]]
              /\ last' = [NoCall EXCEPT !.op = "__init__", !.slot = i,
                             !.cls = cls, !.kwargs = kwargs, !.exc = r.exc,
                             !.attr = r.attr, !.about = About(r)]
    /\ UNCHANGED nsets

\* objs[i] = cls.from_dn(dn)
FromDn(i) ==
    /\ objs[i].state = "unborn"
    /\ \E cls \in AciClasses : \E path \in DNs :
          LET r == from_dn(cls, path)
          IN  /\ objs' = [objs EXCEPT ![i] =
                            [cls |-> cls, dict |-> r.dict,
                             state |-> IF r.exc = "None" THEN "live"
                                       ELSE "failed"]]
              /\ last' = [NoCall EXCEPT !.op = "from_dn", !.slot = i,
                             !.cls = cls, !.dn = path, !.exc = r.exc,
                             !.attr = r.attr, !.about = About(r)]
    /\ UNCHANGED nsets

\* objs[i].k = v
SetAttr(i) ==
    /\ Live(i)
    /\ nsets[i] < MaxSets
    /\ \E k \in SetNames(objs[i].cls) : \E v \in SetVals :
          /\ objs' = [objs EXCEPT ![i].dict = Update(@, [x \in {k} |-> v])]
          /\ last' = [NoCall EXCEPT !.op = "setattr", !.slot = i,
                         !.cls = objs[i].cls, !.kwargs = [x \in {k} |-> v]]
    /\ nsets' = [nsets EXCEPT ![i] = @ + 1]

\* objs[i].identity
Identity(i) ==
    /\ Live(i)
    /\ LET r == identity(objs[i])
       IN  last' = [NoCall EXCEPT !.op = "identity", !.slot = i,
                       !.cls = objs[i].cls, !.exc = r.exc, !.ret = r.ret]
    /\ UNCHANGED <<objs, nsets>>

\* objs[i].attributes()
Attributes(i) ==
    /\ Live(i)
    /\ last' = [NoCall EXCEPT !.op = "attributes", !.slot = i,
                   !.cls = objs[i].cls, !.ret = attributes(objs[i].cls)]
    /\ UNCHANGED <<objs, nsets>>

\* members keeping what it computed on the instance
MembersCaching(i) ==
    /\ Live(i)
    /\ objs' = [objs EXCEPT ![i].dict = Update(@, [_members |-> Str("cached")])]
    /\ last' = [NoCall EXCEPT !.op = "members", !.slot = i,
                   !.cls = objs[i].cls, !.ret = members(objs[i])]
    /\ UNCHANGED nsets

\* objs[i].members
Members(i) ==
    /\ Live(i)
    /\ last' = [NoCall EXCEPT !.op = "members", !.slot = i,
                   !.cls = objs[i].cls, !.ret = members(objs[i])]
    /\ UNCHANGED <<objs, nsets>>

\* str(objs[i])
ToStr(i) ==
    /\ Live(i)
    /\ LET r == __str__(objs[i])
       IN  last' = [NoCall EXCEPT !.op = "__str__", !.slot = i,
                       !.cls = objs[i].cls, !.exc = r.exc, !.ret = r.ret]
    /\ UNCHANGED <<objs, nsets>>

\* objs[i] == objs[j]
Eq(i, j) ==
    /\ Live(i)
    /\ Live(j)
    /\ LET r == eq(objs[i], objs[j])
       IN  last' = [NoCall EXCEPT !.op = "__eq__", !.slot = i, !.other = j,
                       !.cls = objs[i].cls, !.exc = r.exc, !.ret = r.ret]
    /\ UNCHANGED <<objs, nsets>>

\* objs[i] = cls(**kwargs) with every identity attribute supplied
ConstructComplete(i) ==
    /\ objs[i].state = "unborn"
    /\ \E cls \in Classes : \E kwargs \in CompleteKwargs(cls) :
       \E uuid \in UuidsFor(cls) :
          LET r == New(cls, kwargs, uuid)
          IN  /\ objs' = [objs EXCEPT ![i] =
                            [cls |-> cls, dict |-> r.dict,
                             state |-> IF r.exc = "None" THEN "live"
                                       ELSE "failed"]]
              /\ last' = [NoCall EXCEPT !.op = "__init__", !.slot = i,
                             !.cls = cls, !.kwargs = kwargs, !.exc = r.exc,
                             !.attr = r.attr, !.about = About(r)]
    /\ UNCHANGED nsets

\* objs[i] = cls(**kwargs) with exactly the identity attributes supplied
ConstructIdentity(i) ==
    /\ objs[i].state = "unborn"
    /\ \E cls \in Classes : \E uuid \in UuidsFor(cls) :
          LET kwargs == IdentityKwargs(cls)
              r == New(cls, kwargs, uuid)
          IN  /\ objs' = [objs EXCEPT ![i] =
                            [cls |-> cls, dict |-> r.dict,
                             state |-> IF r.exc = "None" THEN "live"
                                       ELSE "failed"]]
              /\ last' = [NoCall EXCEPT !.op = "__init__", !.slot = i,
                             !.cls = cls, !.kwargs = kwargs, !.exc = r.exc,
                             !.attr = r.attr, !.about = About(r)]
    /\ UNCHANGED nsets

\* objs[i].dn; only the subclasses of AciResourceBase have the property
Dn(i) ==
    /\ Live(i)
    /\ LET r == IF IsAciResource(objs[i].cls) THEN dn(objs[i])
                ELSE [exc |-> "AttributeError", ret |-> NoDn]
       IN  last' = [NoCall EXCEPT !.op = "dn", !.slot = i,
                       !.cls = objs[i].cls, !.exc = r.exc, !.ret = r.ret]
    /\ UNCHANGED <<objs, nsets>>

\* objs[j] = type(objs[i]).from_dn(objs[i].dn)
FromDnOf(j, i) ==
    /\ Live(i)
    /\ IsAciResource(objs[i].cls)
    /\ objs[j].state = "unborn"
    /\ dn(objs[i]).exc = "None"
    /\ LET cls == objs[i].cls
           path == dn(objs[i]).ret
           r == from_dn(cls, path)
       IN  /\ objs' = [objs EXCEPT ![j] =
                         [cls |-> cls, dict |-> r.dict,
                          state |-> IF r.exc = "None" THEN "live"
                                    ELSE "failed"]]
           /\ last' = [NoCall EXCEPT !.op = "from_dn", !.slot = j,
                          !.other = i, !.cls = cls, !.dn = path,
                          !.exc = r.exc, !.attr = r.attr, !.about = About(r)]
    /\ UNCHANGED nsets

\* objs[i] = cls(**kwargs) on a type lacking a required declaration
ConstructIncomplete(i) ==
    /\ objs[i].state = "unborn"
    /\ \E cls \in IncompleteClasses : \E kwargs \in Kwargs(cls) :
          LET r == New(cls, kwargs, "")
          IN  /\ objs' = [objs EXCEPT ![i] =
                            [cls |-> cls, dict |-> r.dict,
                             state |-> IF r.exc = "None" THEN "live"
                                       ELSE "failed"]]
              /\ last' = [NoCall EXCEPT !.op = "__init__", !.slot = i,
                             !.cls = cls, !.kwargs = kwargs, !.exc = r.exc,
                             !.attr = r.attr, !.about = About(r)]
    /\ UNCHANGED nsets

\* objs[i] = cls.from_dn(dn) on a type lacking a required declaration
FromDnIncomplete(i) ==
    /\ objs[i].state = "unborn"
    /\ \E cls \in IncompleteClasses : \E path \in DNs :
          LET r == from_dn(cls, path)
          IN  /\ objs' = [objs EXCEPT ![i] =
                            [cls |-> cls, dict |-> r.dict,
                             state |-> IF r.exc = "None" THEN "live"
                                       ELSE "failed"]]
              /\ last' = [NoCall EXCEPT !.op = "from_dn", !.slot = i,
                             !.cls = cls, !.dn = path, !.exc = r.exc,
                             !.attr = r.attr, !.about = About(r)]
    /\ UNCHANGED nsets

\* one instance: its construction, assignments and reads
Next ==
    \/ Construct(1)
    \/ FromDn(1)
    \/ SetAttr(1)
    \/ Identity(1)
    \/ Attributes(1)
    \/ Members(1)

Spec == Init /\ [][Next]_vars

\* two instances and their comparison
NextEq ==
    \/ ConstructComplete(1)
    \/ ConstructComplete(2)
    \/ Eq(1, 2)
    \/ Eq(2, 1)

SpecEq == Init /\ [][NextEq]_vars

\* one instance, its string form and its comparison with itself
NextStr ==
    \/ Construct(1)
    \/ ToStr(1)
    \/ Eq(1, 1)

SpecStr == Init /\ [][NextStr]_vars

\* an instance, its path, and the instance decoded from that path
NextDn ==
    \/ ConstructIdentity(1)
    \/ SetAttr(1)
    \/ Dn(1)
    \/ FromDnOf(2, 1)

SpecDn == Init /\ [][NextDn]_vars

\* the types lacking a required declaration
NextIncomplete ==
    \/ ConstructIncomplete(1)
    \/ FromDnIncomplete(1)

SpecIncomplete == Init /\ [][NextIncomplete]_vars

(***************************************************************************)
(* Ownership of list values.  A list is a mutable object: here it carries  *)
(* its identity id beside its contents, and two values with one id are     *)
(* one object.                                                             *)
(***************************************************************************)
ListObj(id, v) == [t |-> "list", v |-> v, id |-> id]

\* the attributes of cls whose declared default is a list literal
ListAttrs(cls) ==
    {k \in DOMAIN Defaults(cls, "") : Defaults(cls, "")[k].t = "list"}
ListClasses == {cls \in Classes : ListAttrs(cls) # {}}

\* the list objects the caller holds
CallerListIds == {"L1", "L2"}

\* the defaults mapping built by the constructor call `call`: every list
\* literal in it is evaluated by that call, hence a new object
FreshDefaults(cls, uuid, call) ==
    LET d == Defaults(cls, uuid)
    IN  [k \in DOMAIN d |-> IF d[k].t = "list"
                            THEN ListObj(call \o ":" \o k, d[k].v) ELSE d[k]]

\* cls(**kwargs) as the constructor call `call`
NewInCall(cls, kwargs, uuid, call) ==
    IF IsAciResource(cls)
    THEN AciResourceBase__init__(cls, FreshDefaults(cls, uuid, call), kwargs)
    ELSE ResourceBase__init__(cls, FreshDefaults(cls, uuid, call), kwargs)

\* the list objects reachable from the instances
HeldLists ==
    UNION {{objs[j].dict[a] :
               a \in {x \in DOMAIN objs[j].dict : objs[j].dict[x].t = "list"}} :
           j \in {i \in Slots : Live(i)}}

\* the caller's list object id, as it is now
CallerList(id) ==
    IF \E l \in HeldLists : l.id = id
    THEN CHOOSE l \in HeldLists : l.id = id
    ELSE ListObj(id, <<>>)

\* the keyword dicts of the ownership specification: every identity
\* attribute, and at most one list attribute bound to a list of the caller
OwnedKwargs(cls) ==
    {Update(IdentityKwargs(cls), extra) :
        extra \in {EmptyDict} \cup
                  {[k \in {x} |-> CallerList(id)] :
                      x \in ListAttrs(cls), id \in CallerListIds}}

\* d after the list object id was appended to
AppendIn(d, id) ==
    [a \in DOMAIN d |->
        IF d[a].t = "list" /\ d[a].id = id
        THEN [d[a] EXCEPT !.v = Append(d[a].v, "x")] ELSE d[a]]

\* objs[i] = cls(**kwargs), lists being objects
ConstructOwned(i) ==
    /\ objs[i].state = "unborn"
    /\ \E cls \in ListClasses : \E kwargs \in OwnedKwargs(cls) :
          LET r == NewInCall(cls, kwargs, "", IF i = 1 THEN "call1" ELSE "call2")
          IN  /\ objs' = [objs EXCEPT ![i] =
                            [cls |-> cls, dict |-> r.dict,
                             state |-> IF r.exc = "None" THEN "live"
                                       ELSE "failed"]]
              /\ last' = [NoCall EXCEPT !.op = "__init__", !.slot = i,
                             !.cls = cls, !.kwargs = kwargs, !.exc = r.exc,
                             !.attr = r.attr, !.about = About(r)]
    /\ UNCHANGED nsets

\* objs[i].k.append('x'): the list object changes, wherever it is held
AppendTo(i) ==
    /\ Live(i)
    /\ nsets[i] < MaxSets
    /\ \E k \in {a \in DOMAIN objs[i].dict : objs[i].dict[a].t = "list"} :
          LET id == objs[i].dict[k].id
          IN  /\ objs' = [j \in Slots |->
                            [objs[j] EXCEPT !.dict = AppendIn(objs[j].dict, id)]]
              /\ last' = [NoCall EXCEPT !.op = "append", !.slot = i,
                             !.cls = objs[i].cls,
                             !.kwargs = [x \in {k} |-> objs[i].dict[k]]]
    /\ nsets' = [nsets EXCEPT ![i] = @ + 1]

\* two instances and the mutation of their list values
NextOwned ==
    \/ ConstructOwned(1)
    \/ ConstructOwned(2)
    \/ AppendTo(1)
    \/ AppendTo(2)

SpecOwned == Init /\ [][NextOwned]_vars

\* an instance, the instance decoded from its path, and every read on them
NextRead ==
    \/ ConstructIdentity(1)
    \/ SetAttr(1)
    \/ FromDnOf(2, 1)
    \/ Identity(1)
    \/ Attributes(1)
    \/ Members(1)
    \/ Dn(1)
    \/ ToStr(1)
    \/ Eq(1, 1)
    \/ Eq(1, 2)

SpecRead == Init /\ [][NextRead]_vars

\* objs[i] = cls(**kwargs), the identity values being None, '' or a name
ConstructEdge(i) ==
    /\ objs[i].state = "unborn"
    /\ \E cls \in Classes : \E kwargs \in EdgeKwargs(cls) :
       \E uuid \in UuidsFor(cls) :
          LET r == New(cls, kwargs, uuid)
          IN  /\ objs' = [objs EXCEPT ![i] =
                            [cls |-> cls, dict |-> r.dict,
                             state |-> IF r.exc = "None" THEN "live"
                                       ELSE "failed"]]
              /\ last' = [NoCall EXCEPT !.op = "__init__", !.slot = i,
                             !.cls = cls, !.kwargs = kwargs, !.exc = r.exc,
                             !.attr = r.attr, !.about = About(r)]
    /\ UNCHANGED nsets

\* constructions over the edge values, and the reading of the identity
NextEdge ==
    \/ ConstructEdge(1)
    \/ Identity(1)

SpecEdge == Init /\ [][NextEdge]_vars

(***************************************************************************)
(* Agent liveness.  A datetime is a number of seconds since an epoch, a    *)
(* timedelta a number of seconds.                                          *)
(***************************************************************************)
\* seconds in the `days` component of a timedelta
SecondsPerDay == 86400

Time(n) == [t |-> "datetime", v |-> <<n>>]
Num(n) == [t |-> "int", v |-> <<n>>]

\* timedelta.seconds: the seconds component, the days being held apart
timedelta_seconds(d) == d % SecondsPerDay

\* self.heartbeat_timestamp of an Agent
HasHeartbeat(o) ==
    /\ "heartbeat_timestamp" \in DOMAIN o.dict
    /\ o.dict["heartbeat_timestamp"].t = "datetime"
Heartbeat(o) == o.dict["heartbeat_timestamp"].v[1]

\* Agent.is_down, current being what the database returns for now() and
\* agent_down_time the configured cfg.CONF.aim.agent_down_time
is_down(o, current, agent_down_time) ==
    IF "heartbeat_timestamp" \notin DOMAIN o.dict
    THEN [exc |-> "AttributeError", ret |-> None]
    ELSE IF o.dict["heartbeat_timestamp"].t # "datetime"
    THEN [exc |-> "TypeError", ret |-> None]
    ELSE [exc |-> "None",
          ret |-> IF current - Heartbeat(o) >= agent_down_time
                  THEN True ELSE False]

\* Agent.down_time; it asks the database for now() a second time
down_time(o, current, again, agent_down_time) ==
    LET down == is_down(o, current, agent_down_time)
    IN  IF down.exc # "None" THEN down
        ELSE IF down.ret = True
        THEN [exc |-> "None",
              ret |-> Num(timedelta_seconds(again - Heartbeat(o)))]
        ELSE [exc |-> "None", ret |-> None]

\* the heartbeats the database records, the delays after which it is asked
\* for now(), and the configured agent_down_time
Heartbeats == {0, 100}
Delays ==
    {0, 59, 60, 61, 119, 120, 121, 86399, 86400, 86401, 86459, 86460, 86520,
     172930}
AgentDownTimes == {60, 120}

\* the database sets heartbeat_timestamp on the Agent objs[i]
Beat(i) ==
    /\ Live(i)
    /\ objs[i].cls = "Agent"
    /\ "heartbeat_timestamp" \notin DOMAIN objs[i].dict
    /\ \E hb \in Heartbeats :
          /\ objs' = [objs EXCEPT ![i].dict =
                         Update(@, [heartbeat_timestamp |-> Time(hb)])]
          /\ last' = [NoCall EXCEPT !.op = "setattr", !.slot = i,
                         !.cls = objs[i].cls,
                         !.kwargs = [heartbeat_timestamp |-> Time(hb)]]
    /\ UNCHANGED nsets

\* objs[i].is_down(context)
IsDown(i) ==
    /\ Live(i)
    /\ objs[i].cls = "Agent"
    /\ HasHeartbeat(objs[i])
    /\ \E delay \in Delays : \E adt \in AgentDownTimes :
          LET current == Heartbeat(objs[i]) + delay
              r == is_down(objs[i], current, adt)
          IN  last' = [NoCall EXCEPT !.op = "is_down", !.slot = i,
                          !.cls = objs[i].cls,
                          !.kwargs = [current |-> Time(current),
                                      agent_down_time |-> Num(adt)],
                          !.exc = r.exc, !.ret = r.ret]
    /\ UNCHANGED <<objs, nsets>>

\* objs[i].down_time(context); the second now() is the first or one later
DownTime(i) ==
    /\ Live(i)
    /\ objs[i].cls = "Agent"
    /\ HasHeartbeat(objs[i])
    /\ \E delay \in Delays : \E adt \in AgentDownTimes : \E lag \in {0, 1} :
          LET current == Heartbeat(objs[i]) + delay
              again == current + lag
              r == down_time(objs[i], current, again, adt)
          IN  last' = [NoCall EXCEPT !.op = "down_time", !.slot = i,
                          !.cls = objs[i].cls,
                          !.kwargs = [current |-> Time(current),
                                      again |-> Time(again),
                                      agent_down_time |-> Num(adt)],
                          !.exc = r.exc, !.ret = r.ret]
    /\ UNCHANGED <<objs, nsets>>

\* an Agent, its heartbeat and the liveness questions
NextAgent ==
    \/ ConstructIdentity(1)
    \/ Beat(1)
    \/ IsDown(1)
    \/ DownTime(1)

SpecAgent == Init /\ [][NextAgent]_vars

(***************************************************************************)
(* The equality of the test suite (aim/tests/base.py).                     *)
(***************************************************************************)
\* the order deep_sort puts list items in
ItemOrder == <<"x", "y">>

\* the items of v in the order of `order`
RECURSIVE SortedBy(_, _)
SortedBy(v, order) ==
    IF order = <<>> THEN <<>>
    ELSE SelectSeq(v, LAMBDA e : e = Head(order)) \o SortedBy(v, Tail(order))

\* utils.deep_sort (aim/common/utils.py): a list is put in a fixed order,
\* any other value is returned as it is
deep_sort(x) ==
    IF x.t = "list" THEN [x EXCEPT !.v = SortedBy(x.v, ItemOrder)] ELSE x

\* resource_equal(self, other): the types, then the identity attributes in
\* order with getattr (AttributeError on an unset one), then the other
\* attributes with getattr(..., None) under deep_sort
resource_equal(a, b) ==
    LET ids == identity_attributes(a.cls)
        Unset(k) == k \notin DOMAIN a.dict \/ k \notin DOMAIN b.dict
        Stops(k) == Unset(k) \/ ~PyEq(a.dict[k], b.dict[k])
        stops == SelectSeq(ids, Stops)
    IN  IF a.cls # b.cls THEN [exc |-> "None", ret |-> False]
        ELSE IF stops # <<>>
        THEN IF Unset(Head(stops))
             THEN [exc |-> "AttributeError", ret |-> None]
             ELSE [exc |-> "None", ret |-> False]
        ELSE IF \E k \in Range(other_attributes(a.cls)) :
                   ~PyEq(deep_sort(Get(a.dict, k)), deep_sort(Get(b.dict, k)))
        THEN [exc |-> "None", ret |-> False]
        ELSE [exc |-> "None", ret |-> True]

\* the values and names of the keyword the test constructions add
TestVals == {None, [t |-> "list", v |-> <<"x", "y">>],
             [t |-> "list", v |-> <<"y", "x">>]}
TestNames(cls) ==
    LET others == other_attributes(cls)
    IN  (IF others = <<>> THEN {} ELSE {others[1], others[Len(others)]})
        \cup Range(db_attributes(cls)) \cup {"_error"} \cup Undeclared

\* the keyword dicts of the test constructions: the identity attributes all
\* supplied, the last of them 'a' or 'b', or none supplied; at most one
\* further keyword; the flag absent or False
TestKwargs(cls) ==
    LET ids == identity_attributes(cls)
    IN  {Update(Update(id, extra), flag) :
            id \in {IdentityKwargs(cls),
                    Update(IdentityKwargs(cls), [k \in {ids[Len(ids)]} |-> Str("b")]),
                    EmptyDict},
            extra \in {EmptyDict} \cup
                      {[k \in {x} |-> v] : x \in TestNames(cls), v \in TestVals},
            flag \in {EmptyDict, [_set_default |-> False]}}

\* objs[i] = cls(**kwargs), by a test
ConstructTest(i) ==
    /\ objs[i].state = "unborn"
    /\ \E cls \in Classes : \E kwargs \in TestKwargs(cls) :
          LET r == New(cls, kwargs, "uuid1")
          IN  /\ objs' = [objs EXCEPT ![i] =
                            [cls |-> cls, dict |-> r.dict,
                             state |-> IF r.exc = "None" THEN "live"
                                       ELSE "failed"]]
              /\ last' = [NoCall EXCEPT !.op = "__init__", !.slot = i,
                             !.cls = cls, !.kwargs = kwargs, !.exc = r.exc,
                             !.attr = r.attr, !.about = About(r)]
    /\ UNCHANGED nsets

\* objs[j] = type(objs[i])(**kwargs), by a test
ConstructPeer(j, i) ==
    /\ Live(i)
    /\ objs[j].state = "unborn"
    /\ \E kwargs \in TestKwargs(objs[i].cls) :
          LET cls == objs[i].cls
              r == New(cls, kwargs, "uuid1")
          IN  /\ objs' = [objs EXCEPT ![j] =
                            [cls |-> cls, dict |-> r.dict,
                             state |-> IF r.exc = "None" THEN "live"
                                       ELSE "failed"]]
              /\ last' = [NoCall EXCEPT !.op = "__init__", !.slot = j,
                             !.cls = cls, !.kwargs = kwargs, !.exc = r.exc,
                             !.attr = r.attr, !.about = About(r)]
    /\ UNCHANGED nsets

\* objs[j] = Tenant(name='a'), an instance of another type than most
ConstructTenant(j) ==
    /\ objs[j].state = "unborn"
    /\ LET kwargs == IdentityKwargs("Tenant")
           r == New("Tenant", kwargs, "")
       IN  /\ objs' = [objs EXCEPT ![j] =
                         [cls |-> "Tenant", dict |-> r.dict, state |-> "live"]]
           /\ last' = [NoCall EXCEPT !.op = "__init__", !.slot = j,
                          !.cls = "Tenant", !.kwargs = kwargs]
    /\ UNCHANGED nsets

\* resource_equal(objs[i], objs[j])
ResourceEqual(i, j) ==
    /\ Live(i)
    /\ Live(j)
    /\ LET r == resource_equal(objs[i], objs[j])
       IN  last' = [NoCall EXCEPT !.op = "resource_equal", !.slot = i,
                       !.other = j, !.cls = objs[i].cls, !.exc = r.exc,
                       !.ret = r.ret]
    /\ UNCHANGED <<objs, nsets>>

\* an instance, a second one of its type or a Tenant, and their comparison
NextTest ==
    \/ ConstructTest(1)
    \/ ConstructPeer(2, 1)
    \/ ConstructTenant(2)
    \/ ResourceEqual(1, 2)
    \/ ResourceEqual(2, 1)

SpecTest == Init /\ [][NextTest]_vars

(***************************************************************************)
(* Properties.                                                             *)
(***************************************************************************)
\* keys of the defaults mapping of cls
DefaultKeys(cls) == DOMAIN Defaults(cls, "")
\* the instance the latest call was made on
Self == objs[last.slot]
Ids == identity_attributes(last.cls)
Constructed == last.op = "__init__" /\ last.exc = "None"

\* identity attributes with no default that the latest constructor call omitted
Omitted ==
    {k \in Range(Ids) : k \notin DOMAIN last.kwargs /\ k \notin DefaultKeys(last.cls)}
\* every identity attribute the latest constructor call supplied has a value
SuppliedSet ==
    \A k \in Range(Ids) \cap DOMAIN last.kwargs : last.kwargs[k] # None

\* C1: constructing while omitting a non-empty set S of identity attributes
\* that have no default fails with IdentityAttributesMissing, and the error
\* names exactly the attributes of S, all of them, in declaration order.
C1_MissingNamesAll ==
    (last.op = "__init__" /\ Omitted # {} /\ SuppliedSet) =>
        /\ last.exc = "IdentityAttributesMissing"
        /\ last.attr = SelectSeq(Ids, LAMBDA k : k \in Omitted)

C1_Witness ==
    /\ last.op = "__init__"
    /\ last.cls = "Subnet"
    /\ SuppliedSet
    /\ Omitted = {"tenant_name", "gw_ip_mask"}
    /\ last.attr = <<"tenant_name", "gw_ip_mask">>

\* C2: after a successful construction (direct, with or without the
\* _set_default flag, or through from_dn) every identity attribute of the
\* instance is set and is not None.
C2_IdentityAlwaysSet ==
    (last.op \in {"__init__", "from_dn"} /\ last.exc = "None") =>
        \A k \in Range(Ids) : k \in DOMAIN Self.dict /\ Self.dict[k] # None

\* C3: when construction fails with IdentityAttributesMissing, no attribute
\* has been set on the instance.
C3_NothingSetOnFailure ==
    (last.op = "__init__" /\ last.exc = "IdentityAttributesMissing") =>
        Self.state = "failed" /\ DOMAIN Self.dict = {}

C3_Witness ==
    /\ last.op = "__init__"
    /\ last.exc = "IdentityAttributesMissing"
    /\ last.cls = "BridgeDomain"
    /\ DOMAIN last.kwargs = {"name", "vrf_name"}
    /\ Self.state = "failed"

\* the other/db attributes of cls that a construction with defaults sets
\* when the caller supplies none of them
ExpectedDefaults(cls) ==
    LET declared == Range(other_attributes(cls)) \cup Range(db_attributes(cls))
        d == Defaults(cls, "")
        named == {k \in declared : k \in DOMAIN d}
        shown == IF "display_name" \in Range(other_attributes(cls))
                 THEN {"display_name"} ELSE {}
    IN  [k \in named \cup shown |-> IF k \in named THEN d[k] ELSE Str("")]

\* C4: constructing with all identity attributes supplied and nothing else
\* sets exactly the declared defaults on the other/db attributes, with
\* display_name the empty string when it is an other attribute without a
\* declared default.
C4_DefaultsApplied ==
    (Constructed /\ DOMAIN last.kwargs = Range(Ids)) =>
        [k \in DOMAIN Self.dict \ Range(Ids) |-> Self.dict[k]]
            = ExpectedDefaults(last.cls)

C4_Witness ==
    /\ Constructed
    /\ last.cls = "EndpointGroup"
    /\ DOMAIN last.kwargs = Range(Ids)
    /\ Self.dict["display_name"] = Str("")
    /\ Self.dict["static_paths"] = EmptyList

\* C5: every attribute the caller supplies at construction has the caller's
\* value on the constructed instance, with or without a declared default,
\* identity attribute or not.
C5_CallerValuesWin ==
    Constructed =>
        \A k \in DOMAIN last.kwargs \ {"_set_default"} :
            k \in DOMAIN Self.dict /\ Self.dict[k] = last.kwargs[k]

C5_Witness ==
    /\ Constructed
    /\ last.cls = "Tenant"
    /\ "_set_default" \notin DOMAIN last.kwargs
    /\ "monitored" \in DOMAIN last.kwargs
    /\ Self.dict["monitored"] = Str("b")

NoDuplicates(xs) == \A i, j \in DOMAIN xs : xs[i] = xs[j] => i = j

\* C6: attributes() is the identity keys, then the other keys, then the db
\* keys, without a duplicate name, whatever was constructed or assigned.
C6_AttributesOrdered ==
    last.op = "attributes" =>
        /\ last.ret = identity_attributes(last.cls) \o other_attributes(last.cls)
                        \o db_attributes(last.cls)
        /\ NoDuplicates(last.ret)
        /\ Range(identity_attributes(last.cls))
              \cap Range(other_attributes(last.cls)) = {}
        /\ Range(identity_attributes(last.cls))
              \cap Range(db_attributes(last.cls)) = {}
        /\ Range(other_attributes(last.cls))
              \cap Range(db_attributes(last.cls)) = {}

C6_Witness ==
    /\ last.op = "attributes"
    /\ last.cls = "Agent"
    /\ nsets[1] > 0
    /\ Len(last.ret) = 10

\* C7: identity is the sequence of the current values of the identity
\* attributes in declaration order, as long as the declared identity.
C7_IdentityInOrder ==
    last.op = "identity" =>
        /\ last.exc = "None"
        /\ Len(last.ret) = Len(Ids)
        /\ \A i \in DOMAIN Ids : last.ret[i] = Self.dict[Ids[i]]

\* C8: members maps exactly the names among the declared attributes and the
\* two bookkeeping flags that are set on the instance to their current
\* values.
C8_MembersExact ==
    last.op = "members" =>
        /\ DOMAIN last.ret =
              (Range(attributes(last.cls)) \cup Bookkeeping) \cap DOMAIN Self.dict
        /\ \A k \in DOMAIN last.ret : last.ret[k] = Self.dict[k]

C8_Witness ==
    /\ last.op = "members"
    /\ "_error" \in DOMAIN last.ret
    /\ "pre_existing" \notin DOMAIN Self.dict
    /\ DOMAIN Self.dict \ DOMAIN last.ret # {}

\* the attributes an instance of cls may carry as members
Declared(cls) == Range(attributes(cls)) \cup Bookkeeping
Other == objs[last.other]
BaseEq == last.op = "__eq__" /\ last.cls # "Agent"

\* C9 as claimed: under the base equality a == b exactly when the member
\* mappings are equal.
C9_EqIffMembers ==
    BaseEq => (last.ret = True <=> DictEq(members(Self), members(Other)))

\* C9 as amended: under the base equality a == b exactly when the two
\* __dict__ are equal, which is equality of the member mappings whenever
\* every attribute set on either instance is a declared attribute or a
\* bookkeeping flag.
C9_EqIffDict ==
    BaseEq =>
        /\ last.exc = "None"
        /\ last.ret = True <=>
              /\ DOMAIN Self.dict = DOMAIN Other.dict
              /\ \A k \in DOMAIN Self.dict : PyEq(Self.dict[k], Other.dict[k])
        /\ (/\ DOMAIN Self.dict \subseteq Declared(Self.cls)
            /\ DOMAIN Other.dict \subseteq Declared(Other.cls)) =>
              (last.ret = True <=> DictEq(members(Self), members(Other)))

C9_Witness ==
    /\ BaseEq
    /\ last.ret = False
    /\ "extra" \in DOMAIN Self.dict
    /\ DictEq(members(Self), members(Other))

\* names on which two instances differ: set on one only, or unequal values
DiffNames(a, b) ==
    {k \in DOMAIN a.dict \cup DOMAIN b.dict :
        \/ k \notin DOMAIN a.dict
        \/ k \notin DOMAIN b.dict
        \/ ~PyEq(a.dict[k], b.dict[k])}

\* the two compared instances are of one type and differ in the value of
\* exactly one other attribute
DifferInOneOther ==
    /\ Self.cls = Other.cls
    /\ \E k \in Range(other_attributes(Self.cls)) :
          /\ DiffNames(Self, Other) = {k}
          /\ k \in DOMAIN Self.dict \cap DOMAIN Other.dict

\* C10 as claimed: two instances of any one type that differ in exactly one
\* other-attribute value compare unequal.
C10_OneOtherDiffers ==
    (last.op = "__eq__" /\ DifferInOneOther) => last.ret = False

\* C10 as amended: the same for every type but Agent, whose __eq__ compares
\* the id alone.
C10_OneOtherDiffersBase ==
    (BaseEq /\ DifferInOneOther) => last.ret = False

C10_Witness ==
    /\ BaseEq
    /\ DifferInOneOther
    /\ Self.cls = "FilterEntry"
    /\ Self.dict["tcp_flags"] = Str("b")
    /\ last.ret = False

\* a == b returned True
EqTrue(a, b) == eq(a, b).exc = "None" /\ eq(a, b).ret = True

\* C11: on the instances of one type == is an equivalence relation: a == a,
\* a == b implies b == a, and a == b and b == c imply a == c.
C11_Equivalence ==
    last.op = "__eq__" =>
        LET same == {i \in Slots : Live(i) /\ objs[i].cls = last.cls}
        IN  /\ \A i \in same : EqTrue(objs[i], objs[i])
            /\ \A i, j \in same :
                  EqTrue(objs[i], objs[j]) => EqTrue(objs[j], objs[i])
            /\ \A i, j, k \in same :
                  (EqTrue(objs[i], objs[j]) /\ EqTrue(objs[j], objs[k]))
                      => EqTrue(objs[i], objs[k])

\* the values of the attributes keys[i..] of d, separated by commas
RECURSIVE Commas(_, _, _)
Commas(keys, d, i) ==
    IF i > Len(keys) THEN ""
    ELSE IF i = Len(keys) THEN d[keys[i]].v[1]
    ELSE d[keys[i]].v[1] \o "," \o Commas(keys, d, i + 1)

\* names that are not identity attributes of the latest call's type
NonIdentityNames ==
    (Range(attributes(last.cls)) \cup Bookkeeping \cup Undeclared) \ Range(Ids)

\* C12: str(r) is the type name followed by the identity values in
\* declaration order, comma-separated, in parentheses; changing an attribute
\* that is not an identity attribute, or a bookkeeping flag, never changes it.
C12_StrIsTypeAndIdentity ==
    last.op = "__str__" =>
        /\ last.exc = "None"
        /\ last.ret = Str(last.cls \o "(" \o Commas(Ids, Self.dict, 1) \o ")")
        /\ \A k \in NonIdentityNames : \A v \in SetVals \cup ExtraVals :
              __str__([Self EXCEPT !.dict = Update(@, [x \in {k} |-> v])])
                  = __str__(Self)

\* the latest call was cls.from_dn(dn) and the codec decomposed dn
Decoded ==
    /\ last.op = "from_dn"
    /\ aci_decompose(last.dn, _aci_mo_name(last.cls)).exc = "None"

\* C13: from_dn of a path that decomposes into fewer values than the type
\* has identity attributes fails with InvalidDNForAciResource; from_dn of a
\* path that decomposes into exactly as many returns an instance of the type.
C13_LengthDecides ==
    Decoded =>
        /\ Len(last.dn.rns) < Len(Ids) =>
              last.exc = "InvalidDNForAciResource" /\ ~Live(last.slot)
        /\ Len(last.dn.rns) = Len(Ids) =>
              last.exc = "None" /\ Live(last.slot) /\ Self.cls = last.cls

C13_Witness ==
    /\ Decoded
    /\ last.cls = "Subnet"
    /\ Len(last.dn.rns) = 3
    /\ Live(last.slot)

\* C14: when the codec rejects the path, from_dn fails with
\* InvalidDNForAciResource carrying that path and that type; the codec's
\* InvalidNameFormat does not reach the caller and no instance is returned.
C14_RejectionTranslated ==
    (last.op = "from_dn" /\ last.cls \in AciClasses /\ ~Decoded) =>
        /\ last.exc = "InvalidDNForAciResource"
        /\ last.about = [dn |-> last.dn, cls |-> last.cls]
        /\ ~Live(last.slot)
        /\ Self.dict = EmptyDict

C14_Witness ==
    /\ last.op = "from_dn"
    /\ last.cls = "Tenant"
    /\ ~last.dn.ok
    /\ last.about.dn = last.dn
    /\ last.about.dn # NoDn

\* every identity attribute of o is set to a string
WellFormedIdentity(o) ==
    \A k \in Range(identity_attributes(o.cls)) :
        k \in DOMAIN o.dict /\ o.dict[k].t = "str"

\* the latest call was type(r).from_dn(r.dn) for the instance r = Other
RoundTrip == last.op = "from_dn" /\ last.other # 0

\* C15: for an instance r of a hierarchical type whose identity values are
\* well-formed, with a codec whose decoding inverts its encoding,
\* type(r).from_dn(r.dn) returns an instance of the same type whose identity
\* equals r.identity position by position.
C15_RoundTrip ==
    (RoundTrip /\ WellFormedIdentity(Other)) =>
        /\ last.exc = "None"
        /\ Live(last.slot)
        /\ Self.cls = Other.cls
        /\ identity(Self) = identity(Other)

C15_Witness ==
    /\ RoundTrip
    /\ last.cls = "Subnet"
    /\ identity(Other).ret = <<Str("a"), Str("c"), Str("a")>>
    /\ identity(Self).ret = <<Str("a"), Str("c"), Str("a")>>

\* C16: each read of dn on an instance of a hierarchical type is the codec's
\* encoding of the type's _aci_mo_name and the instance's current identity
\* values in declaration order, so a read made after an identity attribute
\* was reassigned encodes the new value.
C16_DnFromCurrentIdentity ==
    (last.op = "dn" /\ last.cls \in AciClasses) =>
        /\ last.exc = "None"
        /\ last.ret = ManagedObjectClass_dn(_aci_mo_name(last.cls),
                          [i \in 1..Len(Ids) |-> Self.dict[Ids[i]]])

C16_Witness ==
    /\ last.op = "dn"
    /\ last.cls = "BridgeDomain"
    /\ nsets[last.slot] = 1
    /\ Self.dict["name"] = Str("c")
    /\ last.ret = [ok |-> TRUE, mo |-> "fvBD", rns |-> <<Str("a"), Str("c")>>]

\* the latest call would return an instance if the type were complete
WouldYield ==
    \/ last.op = "__init__"
    \/ /\ last.op = "from_dn"
       /\ last.dn.ok
       /\ last.dn.mo = "fvTenant"
       /\ Len(last.dn.rns) >= Len(Ids)

\* C17: on a hierarchical type lacking its _aci_mo_name or its _tree_parent
\* every operation that would return an instance, direct construction and
\* from_dn, fails with AciResourceDefinitionError naming a missing
\* declaration and the type, and sets no attribute.
C17_IncompleteUnusable ==
    (last.cls \in IncompleteClasses /\ WouldYield) =>
        /\ last.exc = "AciResourceDefinitionError"
        /\ Len(last.attr) = 1
        /\ ~HasClassAttr(last.cls, last.attr[1])
        /\ last.about.cls = last.cls
        /\ ~Live(last.slot)
        /\ Self.dict = EmptyDict

\* cls declares both _aci_mo_name and _tree_parent / declares neither
CarriesBoth(cls) ==
    HasClassAttr(cls, "_aci_mo_name") /\ HasClassAttr(cls, "_tree_parent")
CarriesNeither(cls) ==
    ~HasClassAttr(cls, "_aci_mo_name") /\ ~HasClassAttr(cls, "_tree_parent")

\* C18: the type of an instance carries _aci_mo_name and _tree_parent
\* exactly when it is hierarchical, that is exposes dn and from_dn; the
\* other types carry neither.
C18_DeclarationsIffHierarchical ==
    /\ last.op = "__init__" =>
          /\ CarriesBoth(last.cls) <=> IsAciResource(last.cls)
          /\ ~IsAciResource(last.cls) => CarriesNeither(last.cls)
    /\ last.op = "dn" => (CarriesBoth(last.cls) <=> last.exc # "AttributeError")

\* the identity attributes of the latest from_dn, valued by the decoded path
DecodedIdentity == [k \in Range(Ids) |->
                       last.dn.rns[CHOOSE i \in 1..Len(Ids) : Ids[i] = k]]

\* C19 as stated: an instance returned by from_dn has exactly its identity
\* attributes set, from the decoded values, and no declared default.
C19_FromDnNoDefaults ==
    (last.op = "from_dn" /\ last.exc = "None") => Self.dict = DecodedIdentity

\* C19: an instance returned by from_dn has its identity attributes set from
\* the decoded values and every other attribute as a construction with
\* defaults sets it: the declared defaults and the empty display_name.
C19_FromDnAppliesDefaults ==
    (last.op = "from_dn" /\ last.exc = "None") =>
        Self.dict = Update(ExpectedDefaults(last.cls), DecodedIdentity)

C19_Witness ==
    /\ last.op = "from_dn"
    /\ last.exc = "None"
    /\ last.cls = "BridgeDomain"
    /\ DOMAIN Self.dict # Range(Ids)
    /\ Self.dict["l2_unknown_unicast_mode"] = Str("proxy")
    /\ Self.dict["display_name"] = Str("")

\* the latest call was a successful construction with _set_default=False
Suppressed ==
    /\ Constructed
    /\ "_set_default" \in DOMAIN last.kwargs
    /\ last.kwargs["_set_default"] = False

\* C20: a construction with _set_default=False sets exactly the attributes
\* the caller supplied: no declared default, no implicit display_name, and
\* the flag itself is neither an attribute nor a member.
C20_SuppressedSetsOnlySupplied ==
    Suppressed =>
        /\ Self.dict = Without(last.kwargs, "_set_default")
        /\ "_set_default" \notin DOMAIN Self.dict
        /\ "_set_default" \notin DOMAIN members(Self)

C20_Witness ==
    /\ Suppressed
    /\ last.cls = "BridgeDomain"
    /\ DOMAIN Self.dict = {"tenant_name", "name"}
    /\ "display_name" \notin DOMAIN Self.dict

\* C21: no attribute value is shared between two instances built by
\* separate constructor calls: appending to a list-valued attribute through
\* one instance leaves every attribute value of the other unchanged.
C21_NoSharing ==
    [][last'.op = "append" =>
          \A j \in Slots \ {last'.slot} : objs'[j] = objs[j]]_vars

\* the type reached from cls by following k parent links ("None" past a root)
RECURSIVE Ancestor(_, _)
Ancestor(cls, k) ==
    IF k = 0 THEN cls
    ELSE IF Ancestor(cls, k - 1) = "None" THEN "None"
    ELSE _tree_parent(Ancestor(cls, k - 1))

\* C22: the parent links of the hierarchical types form a tree whose depth
\* is the identity arity: from the type of every construction, decode and
\* attribute assignment the parent links reach a root in exactly (number of
\* identity attributes - 1) steps, and the type still has its two
\* declarations.
C22_DepthIsArity ==
    (last.op \in {"__init__", "from_dn", "setattr"} /\ last.cls \in AciClasses) =>
        LET n == Len(Ids)
        IN  /\ Ancestor(last.cls, n - 1) \in AciClasses
            /\ Ancestor(last.cls, n) = "None"
            /\ HasClassAttr(last.cls, "_aci_mo_name")
            /\ HasClassAttr(last.cls, "_tree_parent")

C22_Witness ==
    /\ last.op = "setattr"
    /\ last.cls = "SecurityGroupRule"
    /\ Ancestor(last.cls, 1) = "SecurityGroupSubject"
    /\ Ancestor(last.cls, 2) = "SecurityGroup"
    /\ Ancestor(last.cls, 3) = "Tenant"
    /\ Ancestor(last.cls, 4) = "None"

ReadOps == {"identity", "attributes", "members", "dn", "__str__", "__eq__"}
WriteOps == {"__init__", "from_dn", "setattr"}

\* C23: reading identity, attributes(), members, dn, the string form, or
\* comparing two instances changes no attribute of any instance; an attribute
\* changes only in a construction or an explicit assignment.
C23_ReadsArePure ==
    [][/\ last'.op \in ReadOps => objs' = objs
       /\ objs' # objs => last'.op \in WriteOps]_vars

C23_Witness ==
    /\ last.op = "__eq__"
    /\ last.other = 2
    /\ last.cls = "Subnet"
    /\ nsets[1] = 1
    /\ objs[1].dict["gw_ip_mask"] = Str("c")
    /\ objs[2].dict["gw_ip_mask"] = Str("a")

\* the path of the latest from_dn cut to the identity arity of its type
CutDn == [last.dn EXCEPT !.rns = SubSeq(last.dn.rns, 1, Len(Ids))]

\* C24: when the codec decomposes the path into more values than the type
\* has identity attributes, from_dn returns an instance whose identity is
\* the first n values in order; the values after them influence nothing.
C24_ExtraSegmentsDropped ==
    (Decoded /\ Len(last.dn.rns) > Len(Ids)) =>
        /\ last.exc = "None"
        /\ Live(last.slot)
        /\ Self.cls = last.cls
        /\ identity(Self).ret = SubSeq(last.dn.rns, 1, Len(Ids))
        /\ Self.dict = from_dn(last.cls, CutDn).dict

C24_Witness ==
    /\ Decoded
    /\ last.cls = "BridgeDomain"
    /\ last.dn.rns = <<Str("b"), Str("a"), Str("a"), Str("b")>>
    /\ identity(Self).ret = <<Str("b"), Str("a")>>

\* the identity attributes of the latest call's type without a default
NoDefaultIds == {k \in Range(Ids) : k \notin DefaultKeys(last.cls)}
\* those of them the latest constructor call supplied as None
NoneSupplied ==
    {k \in NoDefaultIds \cap DOMAIN last.kwargs : last.kwargs[k] = None}

\* C25: an identity attribute without a default that is supplied as None is
\* treated as if it were omitted: the construction fails with
\* IdentityAttributesMissing naming it, exactly as without the keyword; with
\* any other value, the empty string included, for each such attribute the
\* construction succeeds and sets the values supplied.
C25_NoneIsOmitted ==
    last.op = "__init__" =>
        /\ \A k \in NoneSupplied :
              LET r == New(last.cls, Without(last.kwargs, k), "")
              IN  /\ last.exc = "IdentityAttributesMissing"
                  /\ k \in Range(last.attr)
                  /\ r.exc = last.exc
                  /\ r.attr = last.attr
        /\ (\A k \in NoDefaultIds :
               k \in DOMAIN last.kwargs /\ last.kwargs[k] # None)
           => /\ last.exc = "None"
              /\ \A k \in NoDefaultIds : Self.dict[k] = last.kwargs[k]

C25_Witness ==
    /\ last.op = "__init__"
    /\ last.cls = "Subnet"
    /\ last.kwargs = [tenant_name |-> None, bd_name |-> Str("")]
    /\ last.exc = "IdentityAttributesMissing"
    /\ last.attr = <<"tenant_name", "gw_ip_mask">>

\* seconds from the heartbeat to the first and to the second now() of the
\* latest liveness call, and the agent_down_time it was made under
Elapsed == last.kwargs["current"].v[1] - Heartbeat(Self)
ElapsedAgain == last.kwargs["again"].v[1] - Heartbeat(Self)
DownAfter == last.kwargs["agent_down_time"].v[1]

\* C26: is_down holds exactly when the time since the heartbeat is at least
\* agent_down_time seconds; down_time returns None when the agent is not
\* down, and otherwise the total number of seconds since the heartbeat,
\* which is never smaller than agent_down_time, days included.
C26_DownTimeIsElapsed ==
    /\ last.op = "is_down" =>
          /\ last.exc = "None"
          /\ last.ret = True <=> Elapsed >= DownAfter
    /\ last.op = "down_time" =>
          /\ last.exc = "None"
          /\ Elapsed < DownAfter => last.ret = None
          /\ Elapsed >= DownAfter =>
                /\ last.ret = Num(ElapsedAgain)
                /\ last.ret.v[1] >= DownAfter

\* attribute k of o, an unset one read as None, lists without their order
Normalised(o, k) == deep_sort(Get(o.dict, k))

\* C27: resource_equal returns True exactly when the two instances have the
\* same type, equal values for every identity attribute and, an unset
\* attribute read as None and lists compared without their order, equal
\* values for every other attribute; nothing else affects the result.
C27_ResourceEqual ==
    last.op = "resource_equal" =>
        /\ last.exc = "None"
        /\ last.ret \in {True, False}
        /\ last.ret = True <=>
              /\ Self.cls = Other.cls
              /\ \A k \in Range(identity_attributes(Self.cls)) :
                    PyEq(Get(Self.dict, k), Get(Other.dict, k))
              /\ \A k \in Range(other_attributes(Self.cls)) :
                    PyEq(Normalised(Self, k), Normalised(Other, k))

====
